---- MODULE Spec2Model ----
(***************************************************************************)
(* Model of the code-review gateway: the per-key sliding-window rate       *)
(* limiter and request lifecycle of app/api.py, the backend coordinator of *)
(* app/crew/crew.py, the schema validation of app/schemas.py and the       *)
(* guardrail pipeline of app/guardrails.py.                                *)
(*                                                                         *)
(* Strings are sequences of one-character strings, so that strip(), len(), *)
(* lower(), slicing and the "in" substring test are computed.              *)
(***************************************************************************)
EXTENDS Integers, Sequences, FiniteSets, TLC

\* ------------------------------------------------------------------ bounds
\* Largest rate limit, largest findings maximum, longest backend findings
\* list (in a single pipeline run, and where requests run side by side),
\* number of requests and last clock value explored.
MaxRateLimit == 2
MaxMaxFindings == 2
MaxBackendFindings == 3
MaxSmallFindings == 2
MaxScenarioFindings == 3
NumRequests == 2
MaxTime == 62

\* ------------------------------------------------------- program constants
WindowSeconds == 60
MinTextLen == 10
FingerprintLen == 50
RequestTimeoutSeconds == 30
FallbackScore == 50
ParseFailScore == 70
DefaultScore == 80

\* --------------------------------------------------------------- strings
Whitespace == {" ", "\t", "\n"}

UpperChars == <<"A", "B", "C", "D", "E", "F", "G", "H", "I", "J", "K", "L", "M",
                "N", "O", "P", "Q", "R", "S", "T", "U", "V", "W", "X", "Y", "Z">>
LowerChars == <<"a", "b", "c", "d", "e", "f", "g", "h", "i", "j", "k", "l", "m",
                "n", "o", "p", "q", "r", "s", "t", "u", "v", "w", "x", "y", "z">>

UpperToLower ==
  [c \in {UpperChars[i] : i \in 1..Len(UpperChars)} |->
     LowerChars[CHOOSE i \in 1..Len(UpperChars) : UpperChars[i] = c]]

LowerChar(c) == IF c \in DOMAIN UpperToLower THEN UpperToLower[c] ELSE c

\* str.lower()
Lower(s) == [i \in 1..Len(s) |-> LowerChar(s[i])]

\* str.strip(): drop the leading and the trailing whitespace
Strip(s) ==
  LET nonws == {i \in 1..Len(s) : s[i] \notin Whitespace}
  IN IF nonws = {} THEN <<>>
     ELSE LET lo == CHOOSE i \in nonws : \A j \in nonws : i <= j
              hi == CHOOSE i \in nonws : \A j \in nonws : j <= i
          IN SubSeq(s, lo, hi)

\* s[:n]
Prefix(s, n) == SubSeq(s, 1, IF Len(s) < n THEN Len(s) ELSE n)

\* kw in s
Contains(s, kw) ==
  \E i \in 1..(Len(s) - Len(kw) + 1) : SubSeq(s, i, i + Len(kw) - 1) = kw

Rep(c, n) == [i \in 1..n |-> c]

\* ----------------------------------------------------------------- schemas
Categories == {"security", "performance", "style", "logic", "maintainability"}
Severities == {"low", "medium", "high", "critical"}

\* ["low", "medium", "high", "critical"].index(severity)
SeverityOrder == <<"low", "medium", "high", "critical">>
SeverityIndex(sev) == (CHOOSE i \in 1..Len(SeverityOrder) : SeverityOrder[i] = sev) - 1

\* category.value compared as a Python string: position in lexicographic order
CategoryOrder == <<"logic", "maintainability", "performance", "security", "style">>
CategoryKey(cat) == CHOOSE i \in 1..Len(CategoryOrder) : CategoryOrder[i] = cat

NoLine == 0

\* ReviewFinding.validate_not_empty, applied to message and to suggestion
FieldIsEmpty(v) == v = <<>> \/ Strip(v) = <<>>
validate_not_empty(v) == Strip(v)

\* Whether ReviewFinding(**raw) raises a validation error
FindingInvalid(raw) ==
  \/ raw.category \notin Categories
  \/ raw.severity \notin Severities
  \/ FieldIsEmpty(raw.message)
  \/ FieldIsEmpty(raw.suggestion)

\* ReviewFinding(**raw) for a valid raw finding
ReviewFinding(raw) ==
  [category |-> raw.category, severity |-> raw.severity, file |-> raw.file,
   line |-> raw.line, message |-> validate_not_empty(raw.message),
   suggestion |-> validate_not_empty(raw.suggestion)]

\* Execution metadata and response as built by CodeReviewCrew.review_code
ReviewMetadata(tokens) ==
  [execution_time_ms |-> 0, tokens_used |-> tokens, agent_count |-> 5,
   guardrails_applied |-> <<>>, model |-> "llm_model"]

ReviewResponse(summary, score, findings, metadata) ==
  [summary |-> summary, score |-> score, findings |-> findings, metadata |-> metadata]

\* ------------------------------------------------------------------- utils
\* A diff is a sequence of lines; a line is abstracted to the pattern it
\* matches ("diff_git", "plus", "minus" or "other") and the path it captures.
HeaderKinds == {"diff_git", "plus", "minus"}

\* extract_files_from_diff, as a set (FileNameValidationGuardrail takes set())
extract_files_from_diff(diff) ==
  {diff[i].path : i \in {j \in 1..Len(diff) :
                           diff[j].kind \in HeaderKinds /\ diff[j].path # "/dev/null"}}

\* -------------------------------------------------------------- guardrails
\* The subsequence of fs at the indices in keep, in the original order
RECURSIVE KeepIndices(_, _)
KeepIndices(fs, keep) ==
  IF fs = <<>> THEN <<>>
  ELSE LET n == Len(fs)
           front == KeepIndices(SubSeq(fs, 1, n - 1), keep)
       IN IF n \in keep THEN Append(front, fs[n]) ELSE front

\* Mutant: the name is put at the front of guardrails_applied
PrependApplied(response, name) ==
  [response EXCEPT !.metadata.guardrails_applied = <<name>> \o @]

\* Mutant: recording a name also adds the guardrail's time to the metadata
AppendAppliedTimed(response, name) ==
  [response EXCEPT !.metadata.guardrails_applied = Append(@, name),
                   !.metadata.execution_time_ms = @ + 1]

AppendApplied(response, name) ==
  [response EXCEPT !.metadata.guardrails_applied = Append(@, name)]

\* Each validator is given as the sequence of responses that its mutating
\* statements produce one after the other on the response object it is
\* handed; the last one is what validate() returns.  An empty sequence is a
\* call that changes nothing.

\* sort key of MaxFindingsGuardrail: (severity index, category value)
\* Mutant: among equal severities the alphabetically earlier category ranks
\* higher
SortKeyGECategoryAscending(a, b) ==
  \/ SeverityIndex(a.severity) > SeverityIndex(b.severity)
  \/ /\ SeverityIndex(a.severity) = SeverityIndex(b.severity)
     /\ CategoryKey(a.category) <= CategoryKey(b.category)

SortKeyGE(a, b) ==
  \/ SeverityIndex(a.severity) > SeverityIndex(b.severity)
  \/ /\ SeverityIndex(a.severity) = SeverityIndex(b.severity)
     /\ CategoryKey(a.category) >= CategoryKey(b.category)

\* Mutant: the findings are cut without being sorted
Unsorted(fs) == fs

\* sorted(findings, key=..., reverse=True): stable, descending
RECURSIVE SortedReverse(_)
SortedReverse(fs) ==
  IF fs = <<>> THEN <<>>
  ELSE LET n == Len(fs)
           x == fs[n]
           acc == SortedReverse(SubSeq(fs, 1, n - 1))
           k == Cardinality({i \in 1..Len(acc) : SortKeyGE(acc[i], x)})
       IN SubSeq(acc, 1, k) \o <<x>> \o SubSeq(acc, k + 1, Len(acc))

\* Mutant: the slice keeps one finding too many
MaxFindingsStepsOneMore(response, context, max_findings) ==
  IF Len(response.findings) <= max_findings THEN <<>>
  ELSE LET truncated == [response EXCEPT
                           !.findings = Prefix(SortedReverse(response.findings),
                                               max_findings + 1)]
       IN <<truncated, AppendApplied(truncated, "max_findings")>>

\* Mutant: the early return is missing, the name is recorded on every call
MaxFindingsStepsAlwaysRecord(response, context, max_findings) ==
  LET truncated == [response EXCEPT
                      !.findings = Prefix(SortedReverse(response.findings), max_findings)]
  IN <<truncated, AppendApplied(truncated, "max_findings")>>

\* Mutant: the list is sorted before the count is compared with the maximum
MaxFindingsStepsSortFirst(response, context, max_findings) ==
  LET sorted == [response EXCEPT !.findings = SortedReverse(response.findings)]
  IN IF Len(response.findings) <= max_findings THEN <<sorted>>
     ELSE LET truncated == [sorted EXCEPT !.findings = Prefix(sorted.findings, max_findings)]
          IN <<truncated, AppendApplied(truncated, "max_findings")>>

MaxFindingsSteps(response, context, max_findings) ==
  IF Len(response.findings) <= max_findings THEN <<>>
  ELSE LET truncated == [response EXCEPT
                           !.findings = Prefix(SortedReverse(response.findings), max_findings)]
       IN <<truncated, AppendApplied(truncated, "max_findings")>>

\* Mutant: the sentinel "unknown" is not exempt
FileKeptInDiffOnly(f, valid_files) == f.file \in valid_files

FileKept(f, valid_files) == f.file \in valid_files \/ f.file = "unknown"

\* Mutant: an empty set of extracted files is used like any other
FileNameStepsNoSkip(response, context, max_findings) ==
  LET valid_files == extract_files_from_diff(context.diff)
      fs == response.findings
      filtered == [response EXCEPT !.findings =
                     KeepIndices(fs, {i \in 1..Len(fs) : FileKept(fs[i], valid_files)})]
  IN IF Len(fs) - Len(filtered.findings) > 0
     THEN <<filtered, AppendApplied(filtered, "file_validation")>>
     ELSE <<filtered>>

\* Mutant: a finding naming a file outside the diff is kept with its file
\* rewritten to "unknown"
FileNameStepsRewrite(response, context, max_findings) ==
  LET valid_files == extract_files_from_diff(context.diff)
      fs == response.findings
      rewritten == [response EXCEPT !.findings =
                      [i \in 1..Len(fs) |->
                         IF FileKept(fs[i], valid_files) THEN fs[i]
                         ELSE [fs[i] EXCEPT !.file = "unknown"]]]
  IN IF valid_files = {} THEN <<>>
     ELSE IF rewritten # response
          THEN <<rewritten, AppendApplied(rewritten, "file_validation")>>
          ELSE <<rewritten>>

FileNameSteps(response, context, max_findings) ==
  LET valid_files == extract_files_from_diff(context.diff)
      fs == response.findings
      filtered == [response EXCEPT !.findings =
                     KeepIndices(fs, {i \in 1..Len(fs) : FileKept(fs[i], valid_files)})]
  IN IF valid_files = {} THEN <<>>
     ELSE IF Len(fs) - Len(filtered.findings) > 0
          THEN <<filtered, AppendApplied(filtered, "file_validation")>>
          ELSE <<filtered>>

\* Mutant: the length tests are missing
MessageKeptNonEmpty(f) == Strip(f.message) # <<>> /\ Strip(f.suggestion) # <<>>

MessageKept(f) ==
  /\ Strip(f.message) # <<>>
  /\ Strip(f.suggestion) # <<>>
  /\ Len(f.message) > MinTextLen
  /\ Len(f.suggestion) > MinTextLen

\* Mutant: the guardrail removes findings without recording its name
EmptyMessageStepsNoRecord(response, context, max_findings) ==
  LET fs == response.findings
  IN <<[response EXCEPT !.findings =
          KeepIndices(fs, {i \in 1..Len(fs) : MessageKept(fs[i])})]>>

EmptyMessageSteps(response, context, max_findings) ==
  LET fs == response.findings
      filtered == [response EXCEPT !.findings =
                     KeepIndices(fs, {i \in 1..Len(fs) : MessageKept(fs[i])})]
  IN IF Len(fs) - Len(filtered.findings) > 0
     THEN <<filtered, AppendApplied(filtered, "empty_message")>>
     ELSE <<filtered>>

\* Mutant: the fingerprint compares messages with their case
FingerprintCaseSensitive(f) ==
  <<f.file, f.line, f.category, Strip(Prefix(f.message, FingerprintLen))>>

\* Mutant: the severity is part of the fingerprint
FingerprintWithSeverity(f) ==
  <<f.file, f.line, f.category, f.severity,
    Strip(Lower(Prefix(f.message, FingerprintLen)))>>

Fingerprint(f) ==
  <<f.file, f.line, f.category, Strip(Lower(Prefix(f.message, FingerprintLen)))>>

\* Mutant: of the findings with one fingerprint the last is kept
DuplicateStepsKeepLast(response, context, max_findings) ==
  LET fs == response.findings
      unique == KeepIndices(fs, {i \in 1..Len(fs) :
                  \A j \in (i + 1)..Len(fs) : Fingerprint(fs[j]) # Fingerprint(fs[i])})
      replaced == [response EXCEPT !.findings = unique]
  IN IF Len(fs) - Len(unique) > 0
     THEN <<replaced, AppendApplied(replaced, "duplicate_detection")>>
     ELSE <<>>

DuplicateSteps(response, context, max_findings) ==
  LET fs == response.findings
      unique == KeepIndices(fs, {i \in 1..Len(fs) :
                  \A j \in 1..(i - 1) : Fingerprint(fs[j]) # Fingerprint(fs[i])})
      replaced == [response EXCEPT !.findings = unique]
  IN IF Len(fs) - Len(unique) > 0
     THEN <<replaced, AppendApplied(replaced, "duplicate_detection")>>
     ELSE <<>>

SeriousKeywords ==
  {<<"i", "n", "j", "e", "c", "t", "i", "o", "n">>,
   <<"x", "s", "s">>,
   <<"s", "q", "l">>,
   <<"a", "u", "t", "h", "e", "n", "t", "i", "c", "a", "t", "i", "o", "n">>,
   <<"a", "u", "t", "h", "o", "r", "i", "z", "a", "t", "i", "o", "n">>,
   <<"c", "r", "e", "d", "e", "n", "t", "i", "a", "l">>,
   <<"p", "a", "s", "s", "w", "o", "r", "d">>,
   <<"s", "e", "c", "r", "e", "t">>,
   <<"t", "o", "k", "e", "n">>}

\* Mutant: every low security finding is upgraded, keyword or not
NeedsUpgradeAnySecurityLow(f) ==
  /\ f.category = "security"
  /\ f.severity = "low"

NeedsUpgrade(f) ==
  /\ f.category = "security"
  /\ f.severity = "low"
  /\ LET message_lower == Lower(f.message)
     IN \E kw \in SeriousKeywords : Contains(message_lower, kw)

\* Mutant: the loop upgrades to high
RECURSIVE SeverityLoopToHigh(_, _)
SeverityLoopToHigh(response, i) ==
  IF i > Len(response.findings) THEN <<>>
  ELSE IF NeedsUpgrade(response.findings[i])
       THEN LET upgraded == [response EXCEPT !.findings[i].severity = "high"]
            IN <<upgraded>> \o SeverityLoopToHigh(upgraded, i + 1)
       ELSE SeverityLoopToHigh(response, i + 1)

\* The loop of SeverityValidationGuardrail.validate: the responses after each
\* in-place upgrade, findings visited in list order
RECURSIVE SeverityLoop(_, _)
SeverityLoop(response, i) ==
  IF i > Len(response.findings) THEN <<>>
  ELSE IF NeedsUpgrade(response.findings[i])
       THEN LET upgraded == [response EXCEPT !.findings[i].severity = "medium"]
            IN <<upgraded>> \o SeverityLoop(upgraded, i + 1)
       ELSE SeverityLoop(response, i + 1)

\* Mutant: the guardrail records its name whether or not it modified anything
SeverityStepsAlwaysRecord(response, context, max_findings) ==
  LET loop == SeverityLoop(response, 1)
  IN IF loop = <<>> THEN <<AppendApplied(response, "severity_validation")>>
     ELSE Append(loop, AppendApplied(loop[Len(loop)], "severity_validation"))

SeveritySteps(response, context, max_findings) ==
  LET loop == SeverityLoop(response, 1)
  IN IF loop = <<>> THEN <<>>
     ELSE Append(loop, AppendApplied(loop[Len(loop)], "severity_validation"))

\* Mutant: the severity guardrail is registered before the file name guardrail
GuardrailsSeverityEarly ==
  <<"EmptyMessageGuardrail", "DuplicateDetectionGuardrail", "SeverityValidationGuardrail",
    "FileNameValidationGuardrail", "MaxFindingsGuardrail">>

\* GuardrailOrchestrator.__init__: the fixed validator sequence
\* Mutant: the truncation is registered before the severity correction
GuardrailsTruncateEarly ==
  <<"EmptyMessageGuardrail", "DuplicateDetectionGuardrail", "FileNameValidationGuardrail",
    "MaxFindingsGuardrail", "SeverityValidationGuardrail">>

Guardrails ==
  <<"EmptyMessageGuardrail", "DuplicateDetectionGuardrail", "FileNameValidationGuardrail",
    "SeverityValidationGuardrail", "MaxFindingsGuardrail">>

ValidateSteps(guardrail, response, context, max_findings) ==
  CASE guardrail = "EmptyMessageGuardrail" -> EmptyMessageSteps(response, context, max_findings)
    [] guardrail = "DuplicateDetectionGuardrail" -> DuplicateSteps(response, context, max_findings)
    [] guardrail = "FileNameValidationGuardrail" -> FileNameSteps(response, context, max_findings)
    [] guardrail = "SeverityValidationGuardrail" -> SeveritySteps(response, context, max_findings)
    [] guardrail = "MaxFindingsGuardrail" -> MaxFindingsSteps(response, context, max_findings)

\* A call that raises is described by the number of mutating statements it
\* ran before the exception; NoFault is a call that returns.
NoFault == -1

FaultPoints(guardrail, response, context, max_findings) ==
  0..Len(ValidateSteps(guardrail, response, context, max_findings))

\* The response object after guardrail.validate() returned or raised at fault
Validate(guardrail, response, context, max_findings, fault) ==
  LET steps == ValidateSteps(guardrail, response, context, max_findings)
      done == IF fault = NoFault THEN Len(steps) ELSE fault
  IN IF done = 0 THEN response ELSE steps[done]

\* Mutant: the exception of the last guardrail is not caught
ExceptionCaughtButLast(guardrail) == guardrail # "MaxFindingsGuardrail"

\* "except Exception" of GuardrailOrchestrator.apply: whether an exception
\* raised by the guardrail is caught there
ExceptionCaught(guardrail) == TRUE

\* The body of the loop of GuardrailOrchestrator.apply for one guardrail: the
\* response object after the call, returned or raised
ApplyOne(guardrail, response, context, max_findings, fault) ==
  Validate(guardrail, response, context, max_findings, fault)

\* GuardrailOrchestrator.apply when no validator raises
RECURSIVE ApplyFrom(_, _, _, _)
ApplyFrom(i, response, context, max_findings) ==
  IF i > Len(Guardrails) THEN response
  ELSE ApplyFrom(i + 1, ApplyOne(Guardrails[i], response, context, max_findings, NoFault),
                 context, max_findings)

Apply(response, context, max_findings) == ApplyFrom(1, response, context, max_findings)

\* -------------------------------------------------------------------- crew
\* The backend's answer to kickoff(): an exception, or raw text that is not
\* JSON, JSON that is not an object, or a JSON object with some of its keys.
\* An object carries the set of keys it has.  "unprintable" is a result whose
\* str() raises: the parser's try block fails and so does the f-string of
\* its except branch, so the exception leaves _parse_crew_output.
ParseRaises(out) == out.kind = "unprintable"

\* Mutant: text that does not parse to an object is given the defaults of an
\* object without keys
ParseCrewOutputDefaults(out) ==
  IF out.kind # "object"
  THEN [summary |-> "Code review completed", score |-> DefaultScore, findings |-> <<>>]
  ELSE [summary |-> IF "summary" \in out.keys THEN out.summary ELSE "Code review completed",
        score |-> IF "score" \in out.keys THEN out.score ELSE DefaultScore,
        findings |-> IF "findings" \in out.keys THEN out.findings ELSE <<>>]

\* CodeReviewCrew._parse_crew_output on an output it returns for
ParseCrewOutput(out) ==
  IF out.kind # "object"
  THEN [summary |-> "Review completed but output parsing failed",
        score |-> ParseFailScore, findings |-> <<>>]
  ELSE [summary |-> IF "summary" \in out.keys THEN out.summary ELSE "Code review completed",
        score |-> IF "score" \in out.keys THEN out.score ELSE DefaultScore,
        findings |-> IF "findings" \in out.keys THEN out.findings ELSE <<>>]

\* Mutant: the fallback carries the parser's score
FallbackWithParseScore(error) ==
  ReviewResponse(<<"Review failed: ", error>>, ParseFailScore, <<>>, ReviewMetadata(0))

\* The fallback response of the except branch of CodeReviewCrew.review_code
FallbackResponse(error) ==
  ReviewResponse(<<"Review failed: ", error>>, FallbackScore, <<>>, ReviewMetadata(0))

\* Whether ReviewResponse(...) raises: a finding that fails validation, or a
\* score outside [0, 10]
ResponseInvalid(data) ==
  \/ \E i \in 1..Len(data.findings) : FindingInvalid(data.findings[i])
  \/ data.score < 0 \/ data.score > 100

\* The error raised inside the try block of CodeReviewCrew.review_code, or
\* "none"
CrewError(out) ==
  IF out.kind = "raise" THEN "kickoff failed"
  ELSE IF ParseRaises(out) THEN "parse failed"
  ELSE IF ResponseInvalid(ParseCrewOutput(out)) THEN "validation error"
  ELSE "none"

\* CodeReviewCrew.review_code: what the executor thread returns
CrewReviewCode(out) ==
  IF CrewError(out) # "none" THEN FallbackResponse(CrewError(out))
  ELSE LET data == ParseCrewOutput(out)
       IN ReviewResponse(data.summary, data.score,
                         [i \in 1..Len(data.findings) |-> ReviewFinding(data.findings[i])],
                         ReviewMetadata(1))

\* ----------------------------------------------------------- input domains
Msg11 == Rep("a", 11)
Msg10 == Rep("a", 10)
MsgUpper11 == Rep("A", 11)
MsgPadded9 == <<" ">> \o Rep("a", 9) \o <<" ", "\n">>
MsgSql == <<"S", "Q", "L", " ">> \o Rep("a", 8)
MsgLongX == Rep("a", 50) \o <<"x">>
MsgLongY == Rep("a", 50) \o <<"y">>
MsgBlank == <<" ", " ">>
Sugg12 == Rep("b", 12)
Sugg5 == Rep("b", 5)

Raw(cat, sev, file, line, msg, sugg) ==
  [category |-> cat, severity |-> sev, file |-> file, line |-> line,
   message |-> msg, suggestion |-> sugg]

\* Findings the backend may emit
FindingPool ==
  {Raw("security", "low", "auth.py", 3, MsgSql, Sugg12),
   Raw("security", "low", "auth.py", 3, Msg11, Sugg12),
   Raw("performance", "low", "unknown", NoLine, MsgSql, Sugg12),
   Raw("style", "critical", "x.py", 5, Msg11, Sugg12),
   Raw("logic", "medium", "auth.py", NoLine, Msg10, Sugg12),
   Raw("security", "medium", "auth.py", 3, MsgUpper11, Sugg12),
   Raw("logic", "high", "auth.py", 7, Msg11, Sugg5),
   Raw("security", "critical", "auth.py", 9, MsgLongX, Sugg12),
   Raw("security", "high", "auth.py", 9, MsgLongY, Sugg12),
   Raw("logic", "low", "auth.py", 3, MsgPadded9, Sugg12)}

AllKeys == {"summary", "score", "findings"}

ObjectOutput(findings) ==
  [kind |-> "object", keys |-> AllKeys, summary |-> "summary", score |-> 60,
   findings |-> findings]

\* Findings used where several requests run side by side
SmallPool ==
  {Raw("security", "low", "auth.py", 3, MsgSql, Sugg12),
   Raw("style", "critical", "x.py", 5, Msg11, Sugg12)}

InvalidOutput == ObjectOutput(<<Raw("style", "low", "auth.py", 5, MsgBlank, Sugg12)>>)

SeqsUpTo(S, n) == UNION {[1..k -> S] : k \in 0..n}


OtherOutputs ==
  {[kind |-> "raise"], [kind |-> "unprintable"], [kind |-> "not_json"], [kind |-> "array"],
   [kind |-> "object", keys |-> {}, summary |-> "", score |-> 0, findings |-> <<>>]}

BackendOutputs ==
  OtherOutputs \cup {InvalidOutput}
    \cup {ObjectOutput(fs) : fs \in SeqsUpTo(FindingPool, MaxBackendFindings)}

SmallOutputs ==
  OtherOutputs \cup {InvalidOutput}
    \cup {ObjectOutput(fs) : fs \in SeqsUpTo(SmallPool, MaxSmallFindings)}

\* Findings of the end-to-end scenarios: each one also with another severity,
\* and one valid finding that outranks the others
ScenarioPool ==
  {Raw("security", "low", "auth.py", 3, MsgSql, Sugg12),
   Raw("security", "high", "auth.py", 3, MsgSql, Sugg12),
   Raw("style", "critical", "x.py", 5, Msg11, Sugg12),
   Raw("style", "low", "x.py", 5, Msg11, Sugg12),
   Raw("security", "critical", "auth.py", 9, MsgLongX, Sugg12)}

ScenarioOutputs ==
  OtherOutputs \cup {ObjectOutput(fs) : fs \in SeqsUpTo(ScenarioPool, MaxScenarioFindings)}

\* Backend answers used where several requests run side by side: every kind
\* of answer, with at most one finding
LifecycleOutputs ==
  OtherOutputs \cup {InvalidOutput} \cup {ObjectOutput(fs) : fs \in SeqsUpTo(SmallPool, 1)}

DiffAuth == <<[kind |-> "diff_git", path |-> "auth.py"], [kind |-> "minus", path |-> "auth.py"],
              [kind |-> "plus", path |-> "auth.py"], [kind |-> "other", path |-> ""]>>
DiffNone == <<[kind |-> "other", path |-> ""]>>
Diffs == {DiffAuth, DiffNone}

ValidKey == "review_api_key"
Tokens == {ValidKey, "invalid-key"}
Keys == {"k", ValidKey}
TickSteps == {30, 31}
Requests == 1..NumRequests

\* ------------------------------------------------------------------- state
VARIABLES
  now,                     \* time.time()
  request_timestamps,      \* api.request_timestamps: key -> list of timestamps
  rate_limit_per_minute,   \* config.rate_limit_per_minute
  max_findings_per_review, \* config.max_findings_per_review
  crew_instance,           \* crew._crew_instance: "None" or "crew"
  state,                   \* per request: where its handler is
  started,                 \* per request: when the backend call was submitted
  thread,                  \* per request: the executor thread running crew.review_code
  diffOf,                  \* per request: the (sanitized) diff handed to the backend
  sent,                    \* per request: the HTTP responses produced, in order
  objects,                 \* the ReviewResponse objects built, named by the call that built them
  holds,                   \* per request: the object its handler passed through apply, or 0
  admits,                  \* log of check_rate_limit calls: <<key, time, admitted>>
  run                      \* one pipeline run, validator by validator

vars == <<now, request_timestamps, rate_limit_per_minute, max_findings_per_review,
          crew_instance, state, started, thread, diffOf, sent, objects, holds, admits,
          run>>

limiterVars == <<now, request_timestamps, admits>>
requestVars == <<crew_instance, state, started, thread, diffOf, sent, objects, holds>>
configVars == <<rate_limit_per_minute, max_findings_per_review>>

NoRun == [phase |-> "idle"]

\* The slot of an object that has not been built
NoObject == [made |-> FALSE, startApplied |-> <<>>, response |-> FallbackResponse("none")]

InitConfig ==
  /\ rate_limit_per_minute \in 1..MaxRateLimit
  /\ max_findings_per_review \in 1..MaxMaxFindings

InitService ==
  /\ now = 0
  /\ request_timestamps = <<>>
  /\ crew_instance = "None"
  /\ state = [r \in Requests |-> "Pending"]
  /\ started = [r \in Requests |-> 0]
  /\ thread = [r \in Requests |-> "none"]
  /\ diffOf = [r \in Requests |-> DiffNone]
  /\ sent = [r \in Requests |-> <<>>]
  /\ objects = [r \in Requests |-> NoObject]
  /\ holds = [r \in Requests |-> 0]
  /\ admits = <<>>

\* The service as started.  The backend answers of the request path carry at
\* most one finding, which no configured maximum (at least 1) truncates, so
\* the maximum is fixed here; the pipeline runs below vary it.
Init ==
  /\ rate_limit_per_minute \in 1..MaxRateLimit
  /\ max_findings_per_review = MaxMaxFindings
  /\ InitService
  /\ run = NoRun

\* ------------------------------------------------------------ rate limiter
\* Mutant: the clean-up keeps every timestamp
PrunedNever(timestamps, api_key, current_time) ==
  IF api_key \in DOMAIN timestamps THEN timestamps[api_key] ELSE <<>>

\* The list kept for the key after the clean-up of check_rate_limit
Pruned(timestamps, api_key, current_time) ==
  IF api_key \in DOMAIN timestamps
  THEN SelectSeq(timestamps[api_key], LAMBDA ts : ts > current_time - WindowSeconds)
  ELSE <<>>

\* Mutant: the limit test off by one
LimitExceededOffByOne(kept, limit) == Len(kept) > limit

\* Mutant: the limit test never rejects
LimitNeverExceeded(kept, limit) == FALSE

\* The limit test of check_rate_limit: TRUE when HTTP 429 is raised
LimitExceeded(kept, limit) == Len(kept) >= limit

\* Mutant: the admitted timestamp replaces the key's list, a lost update
CheckRateLimitOverwrite(timestamps, api_key, current_time, limit) ==
  LET kept == Pruned(timestamps, api_key, current_time)
      list == IF LimitExceeded(kept, limit) THEN kept ELSE <<current_time>>
  IN [k \in DOMAIN timestamps \cup {api_key} |->
        IF k = api_key THEN list ELSE timestamps[k]]

\* Mutant: the timestamp is recorded before the limit test, admitted or not
CheckRateLimitRecordAlways(timestamps, api_key, current_time, limit) ==
  LET kept == Pruned(timestamps, api_key, current_time)
  IN [k \in DOMAIN timestamps \cup {api_key} |->
        IF k = api_key THEN Append(kept, current_time) ELSE timestamps[k]]

\* request_timestamps after check_rate_limit(api_key) at current_time
CheckRateLimit(timestamps, api_key, current_time, limit) ==
  LET kept == Pruned(timestamps, api_key, current_time)
      list == IF LimitExceeded(kept, limit) THEN kept ELSE Append(kept, current_time)
  IN [k \in DOMAIN timestamps \cup {api_key} |->
        IF k = api_key THEN list ELSE timestamps[k]]

Admitted(timestamps, api_key, current_time, limit) ==
  ~LimitExceeded(Pruned(timestamps, api_key, current_time), limit)

\* One call of check_rate_limit, with its outcome logged
RateLimitCall(api_key) ==
  /\ request_timestamps' =
       CheckRateLimit(request_timestamps, api_key, now, rate_limit_per_minute)
  /\ admits' = Append(admits, <<api_key, now,
                  Admitted(request_timestamps, api_key, now, rate_limit_per_minute)>>)

\* ------------------------------------------------------------ api handlers
Respond(r, status, body) == sent' = [sent EXCEPT ![r] = Append(@, [status |-> status, body |-> body])]

NoBody == "error"

\* Mutant: every token passes verify_api_key
InvalidKeyNever(token) == FALSE

\* verify_api_key: TRUE when HTTP 401 is raised
InvalidKey(token) == token # ValidKey

\* Mutant: the timeout falls into the generic "except Exception" branch
TimeoutStatusGeneric == 500

\* The status review_code answers when asyncio.wait_for times out: the 504
\* HTTPException passes the handler's "except HTTPException: raise"
TimeoutStatus == 504

\* Mutant: a handler that timed out still takes the backend's result
AwaitingOrTimedOut(r) == state[r] \in {"BackendInvoked", "TimedOut"}

\* Whether the handler of r is still suspended in "await asyncio.wait_for"
Awaiting(r) == state[r] = "BackendInvoked"

\* Mutant: the limiter is asked before the key is verified
ReviewCodeEnterLimitFirst(r, token, diff, crewFails) ==
  /\ state[r] = "Pending"
  /\ \A q \in Requests : q < r => state[q] # "Pending"
  /\ RateLimitCall(token)
  /\ IF ~Admitted(request_timestamps, token, now, rate_limit_per_minute)
     THEN /\ state' = [state EXCEPT ![r] = "RateLimited"]
          /\ Respond(r, 429, NoBody)
          /\ UNCHANGED <<crew_instance, started, thread, diffOf>>
     ELSE IF InvalidKey(token)
          THEN /\ state' = [state EXCEPT ![r] = "Unauthorized"]
               /\ Respond(r, 401, NoBody)
               /\ UNCHANGED <<crew_instance, started, thread, diffOf>>
          ELSE IF crew_instance = "None" /\ crewFails
               THEN /\ state' = [state EXCEPT ![r] = "Error"]
                    /\ Respond(r, 500, NoBody)
                    /\ UNCHANGED <<crew_instance, started, thread, diffOf>>
               ELSE /\ crew_instance' = "crew"
                    /\ state' = [state EXCEPT ![r] = "BackendInvoked"]
                    /\ started' = [started EXCEPT ![r] = now]
                    /\ thread' = [thread EXCEPT ![r] = "running"]
                    /\ diffOf' = [diffOf EXCEPT ![r] = diff]
                    /\ UNCHANGED sent
  /\ UNCHANGED <<now, configVars, run, objects, holds>>

\* POST /review up to its first await: the verify_api_key dependency,
\* check_rate_limit, get_crew() and the submission of crew.review_code to the
\* executor.  No await lies between these, so they are one step of the loop.
\* Requests are numbered in their order of arrival.
ReviewCodeEnter(r, token, diff, crewFails) ==
  /\ state[r] = "Pending"
  /\ \A q \in Requests : q < r => state[q] # "Pending"
  /\ IF InvalidKey(token)
     THEN /\ state' = [state EXCEPT ![r] = "Unauthorized"]
          /\ Respond(r, 401, NoBody)
          /\ UNCHANGED <<request_timestamps, admits, crew_instance, started, thread, diffOf>>
     ELSE /\ RateLimitCall(token)
          /\ IF ~Admitted(request_timestamps, token, now, rate_limit_per_minute)
             THEN /\ state' = [state EXCEPT ![r] = "RateLimited"]
                  /\ Respond(r, 429, NoBody)
                  /\ UNCHANGED <<crew_instance, started, thread, diffOf>>
             ELSE IF crew_instance = "None" /\ crewFails
                  THEN /\ state' = [state EXCEPT ![r] = "Error"]
                       /\ Respond(r, 500, NoBody)
                       /\ UNCHANGED <<crew_instance, started, thread, diffOf>>
                  ELSE /\ crew_instance' = "crew"
                       /\ state' = [state EXCEPT ![r] = "BackendInvoked"]
                       /\ started' = [started EXCEPT ![r] = now]
                       /\ thread' = [thread EXCEPT ![r] = "running"]
                       /\ diffOf' = [diffOf EXCEPT ![r] = diff]
                       /\ UNCHANGED sent
  /\ UNCHANGED <<now, configVars, run, objects, holds>>

\* Mutant: the crew keeps the first response object it built and returns it
\* again
ResultObjectCached(objs, r, out) ==
  IF \E q \in Requests : objs[q].made
  THEN LET q == CHOOSE q \in Requests :
                  objs[q].made /\ \A p \in Requests : objs[p].made => q <= p
       IN [id |-> q, response |-> objs[q].response]
  ELSE [id |-> r, response |-> CrewReviewCode(out)]

\* The object crew.review_code returns for the call of request r: a
\* ReviewResponse constructed in that call
ResultObject(objs, r, out) == [id |-> r, response |-> CrewReviewCode(out)]

\* The executor thread of r finishes crew.review_code(request).  A handler
\* still awaiting it resumes: guardrails, which work on the returned object
\* in place, then the 200 response.  A handler that already timed out is
\* gone, and the returned value is dropped.
BackendFinish(r) ==
  /\ thread[r] = "running"
  /\ thread' = [thread EXCEPT ![r] = "done"]
  /\ IF Awaiting(r)
     THEN \E out \in LifecycleOutputs :
            LET obj == ResultObject(objects, r, out)
                final == Apply(obj.response, [diff |-> diffOf[r]], max_findings_per_review)
            IN /\ state' = [state EXCEPT ![r] =
                              IF CrewError(out) # "none" THEN "Failed" ELSE "Completed"]
               /\ objects' = [objects EXCEPT ![obj.id] =
                                [made |-> TRUE,
                                 startApplied |-> obj.response.metadata.guardrails_applied,
                                 response |-> final]]
               /\ holds' = [holds EXCEPT ![r] = obj.id]
               /\ Respond(r, 200, final)
     ELSE UNCHANGED <<state, sent, objects, holds>>
  /\ UNCHANGED <<limiterVars, configVars, crew_instance, started, diffOf, run>>

Deadline(r) == started[r] + RequestTimeoutSeconds

\* Mutant: the timer is only looked at once the executor thread is done
TimeoutAfterThread(r) ==
  /\ Awaiting(r)
  /\ thread[r] = "done"
  /\ now >= Deadline(r)
  /\ state' = [state EXCEPT ![r] = "TimedOut"]
  /\ Respond(r, TimeoutStatus, NoBody)
  /\ UNCHANGED <<limiterVars, configVars, crew_instance, started, thread, diffOf, run,
                  objects, holds>>

\* Mutant: a request that times out gives its rate-limit slot back
TimeoutRefund(r) ==
  /\ Awaiting(r)
  /\ thread[r] = "running"
  /\ now >= Deadline(r)
  /\ state' = [state EXCEPT ![r] = "TimedOut"]
  /\ Respond(r, TimeoutStatus, NoBody)
  /\ request_timestamps' =
       [request_timestamps EXCEPT ![ValidKey] =
          SelectSeq(@, LAMBDA ts : ts # started[r])]
  /\ UNCHANGED <<now, admits, configVars, crew_instance, started, thread, diffOf, run,
                  objects, holds>>

\* asyncio.wait_for expires before the executor thread has finished
Timeout(r) ==
  /\ Awaiting(r)
  /\ thread[r] = "running"
  /\ now >= Deadline(r)
  /\ state' = [state EXCEPT ![r] = "TimedOut"]
  /\ Respond(r, TimeoutStatus, NoBody)
  /\ UNCHANGED <<limiterVars, configVars, crew_instance, started, thread, diffOf, run,
                  objects, holds>>

\* Time passes; a wait_for timer fires when its deadline is reached, so the
\* clock does not pass the deadline of a handler that is still awaiting.
Tick(d) ==
  /\ now + d <= MaxTime
  /\ \A r \in Requests : Awaiting(r) => now + d <= Deadline(r)
  /\ now' = now + d
  /\ UNCHANGED <<request_timestamps, admits, configVars, requestVars, run>>

Next ==
  \/ \E r \in Requests, token \in Tokens, diff \in Diffs, crewFails \in BOOLEAN :
       ReviewCodeEnter(r, token, diff, crewFails)
  \/ \E r \in Requests : BackendFinish(r)
  \/ \E r \in Requests : Timeout(r)
  \/ \E d \in TickSteps : Tick(d)

Spec == Init /\ [][Next]_vars

\* ------------------------------------------------- the limiter on its own
MaxCalls == 4

\* check_rate_limit called directly with any key
AdmitCheck(api_key) ==
  /\ Len(admits) < MaxCalls
  /\ RateLimitCall(api_key)
  /\ UNCHANGED <<now, configVars, requestVars, run>>

NextLimiter ==
  \/ \E k \in Keys : AdmitCheck(k)
  \/ \E d \in TickSteps : Tick(d)

SpecLimiter == Init /\ [][NextLimiter]_vars

\* ------------------------------------------------ one pipeline run, stepwise
\* One request followed from the backend's answer through the loop of
\* GuardrailOrchestrator.apply, one guardrail per step.  With inject set, a
\* guardrail call may raise at any of its statements.
InitRun(inject) ==
  /\ InitConfig
  /\ rate_limit_per_minute = 1
  /\ InitService
  /\ run \in {[phase |-> "backend", inject |-> inject, context |-> [diff |-> d],
               kind |-> "none", crewError |-> "none", input |-> FallbackResponse("none"),
               response |-> FallbackResponse("none"), before |-> FallbackResponse("none"),
               idx |-> 0, invoked |-> <<>>, errors |-> <<>>] : d \in Diffs}

\* crew.review_code returns to review_code, which calls orchestrator.apply
RunBackend(outputs) ==
  /\ run.phase = "backend"
  /\ \E out \in outputs :
       LET response == CrewReviewCode(out)
       IN run' = [run EXCEPT !.phase = "pipeline", !.kind = out.kind,
                             !.crewError = CrewError(out),
                             !.input = response, !.response = response,
                             !.before = response, !.idx = 1]
  /\ UNCHANGED <<limiterVars, configVars, requestVars>>

Faults(inject, guardrail, response, context, max_findings) ==
  {NoFault} \cup (IF inject THEN FaultPoints(guardrail, response, context, max_findings)
                  ELSE {})

\* One iteration of "for guardrail in self.guardrails"
RunGuardrail ==
  /\ run.phase = "pipeline"
  /\ run.idx <= Len(Guardrails)
  /\ \E fault \in Faults(run.inject, Guardrails[run.idx], run.response, run.context,
                          max_findings_per_review) :
       run' = [run EXCEPT
                 !.phase = IF fault # NoFault /\ ~ExceptionCaught(Guardrails[run.idx])
                           THEN "raised" ELSE @,
                 !.before = run.response,
                 !.response = ApplyOne(Guardrails[run.idx], run.response, run.context,
                                       max_findings_per_review, fault),
                 !.invoked = Append(@, Guardrails[run.idx]),
                 !.errors = IF fault = NoFault THEN @ ELSE Append(@, Guardrails[run.idx]),
                 !.idx = @ + 1]
  /\ UNCHANGED <<limiterVars, configVars, requestVars>>

\* apply returns and review_code returns the response
RunReturn ==
  /\ run.phase = "pipeline"
  /\ run.idx > Len(Guardrails)
  /\ run' = [run EXCEPT !.phase = "returned"]
  /\ UNCHANGED <<limiterVars, configVars, requestVars>>

NextRun == RunBackend(BackendOutputs) \/ RunGuardrail \/ RunReturn

SpecPipeline == InitRun(FALSE) /\ [][NextRun]_vars

\* The same run with raising guardrail calls, over the smaller input domain
NextFault == RunBackend(SmallOutputs) \/ RunGuardrail \/ RunReturn

SpecFault == InitRun(TRUE) /\ [][NextFault]_vars

\* The same run over the findings of the end-to-end scenarios
NextScenario == RunBackend(ScenarioOutputs) \/ RunGuardrail \/ RunReturn

SpecScenario == InitRun(FALSE) /\ [][NextScenario]_vars

\* ------------------------------------------- the request path with progress
\* The event loop sleeps until its earliest timer: the clock reaches the
\* nearest deadline of the handlers suspended in wait_for.
TimerDue ==
  /\ \E r \in Requests : Awaiting(r) /\ now < Deadline(r)
  /\ \E r \in Requests :
       /\ Awaiting(r)
       /\ \A q \in Requests : Awaiting(q) => Deadline(r) <= Deadline(q)
       /\ now' = Deadline(r)
  /\ UNCHANGED <<request_timestamps, admits, configVars, requestVars, run>>

\* A request arrives while the clock leaves room for its deadline
Arrive(r) ==
  /\ now + RequestTimeoutSeconds <= MaxTime
  /\ \E token \in Tokens, diff \in Diffs, crewFails \in BOOLEAN :
       ReviewCodeEnter(r, token, diff, crewFails)

TimePasses == TimerDue \/ \E d \in TickSteps : Tick(d)

NextLive ==
  \/ \E r \in Requests : Arrive(r)
  \/ \E r \in Requests : BackendFinish(r)
  \/ \E r \in Requests : Timeout(r)
  \/ TimePasses

\* Time does not stop and the event loop runs a timer callback that is due.
\* Nothing is assumed of the executor threads: a backend call may never return.
SpecLive ==
  /\ Init
  /\ [][NextLive]_vars
  /\ WF_vars(TimePasses)
  /\ \A r \in Requests : WF_vars(Timeout(r))

\* ================================================================== claims
\* The check_rate_limit calls made for a key, in order
CallsOf(k) == SelectSeq(admits, LAMBDA c : c[1] = k)

\* The times of the admitted calls among calls
AdmittedTimes(calls) ==
  LET adm == SelectSeq(calls, LAMBDA c : c[3]) IN [i \in 1..Len(adm) |-> adm[i][2]]

\* C1: starting from no recorded timestamps, of the admit-checks made for one
\* key inside one 60-second window the first N (the limit) are admitted and
\* every later one, the (N+1)th in particular, is rejected.
C1_FirstNAdmittedThenRejected ==
  \A k \in Keys :
    LET calls == CallsOf(k)
    IN \A j \in 1..Len(calls) :
         calls[j][2] - calls[1][2] < WindowSeconds
           => (calls[j][3] <=> j <= rate_limit_per_minute)

C1_Witness ==
  \E k \in Keys :
    LET calls == CallsOf(k)
        n == rate_limit_per_minute
    IN /\ Len(calls) > n
       /\ calls[n + 1][2] - calls[1][2] < WindowSeconds
       /\ calls[n + 1][2] > calls[1][2]
       /\ \A j \in 1..n : calls[j][3]
       /\ ~calls[n + 1][3]

\* C2: with requests in flight side by side, the admitted checks of a key
\* inside any 60-second window never exceed the limit, and the key's list
\* holds every admitted timestamp of the window that ends at its last check
\* (none is lost).
C2_NoOverAdmitNoLostUpdate ==
  \A k \in Keys :
    LET calls == CallsOf(k)
        times == AdmittedTimes(calls)
    IN /\ \A j \in 1..Len(calls) :
            Cardinality({i \in 1..Len(times) :
                           /\ times[i] > calls[j][2] - WindowSeconds
                           /\ times[i] <= calls[j][2]}) <= rate_limit_per_minute
       /\ calls # <<>> =>
            /\ k \in DOMAIN request_timestamps
            /\ request_timestamps[k] =
                 SelectSeq(times, LAMBDA ts : ts > calls[Len(calls)][2] - WindowSeconds)

C2_Witness ==
  \E r1, r2 \in Requests :
    /\ r1 # r2
    /\ state[r1] = "BackendInvoked" /\ thread[r1] = "running"
    /\ state[r2] = "BackendInvoked" /\ thread[r2] = "running"
    /\ started[r1] = started[r2]
    /\ Len(request_timestamps[ValidKey]) = 2

\* C3: when a guardrail call raises, the exception does not leave the
\* pipeline run: every guardrail of the fixed sequence is still invoked, in
\* order, and the run returns.
C3_RaiseDoesNotAbort ==
  /\ run.phase # "raised"
  /\ run.phase = "pipeline" => run.invoked = SubSeq(Guardrails, 1, run.idx - 1)
  /\ run.phase = "returned" => run.invoked = Guardrails

C3_Witness ==
  /\ run.phase = "returned"
  /\ run.errors # <<>>
  /\ run.errors[1] = "EmptyMessageGuardrail"
  /\ run.invoked = Guardrails

\* The last guardrail call of the run raised
LastCallRaised ==
  /\ run.phase \in {"pipeline", "returned"}
  /\ run.idx > 1
  /\ run.errors # <<>>
  /\ run.errors[Len(run.errors)] = Guardrails[run.idx - 1]

\* C4: when a guardrail call raises, the response handed on is the response
\* as it was before that call (findings, severities and guardrails_applied):
\* nothing the failing call changed survives.
C4_RaiseLeavesResponseUnchanged == LastCallRaised => run.response = run.before

\* C5: a backend call still running when its deadline has passed belongs to a
\* request that is TimedOut, and a TimedOut request was answered 504 and
\* nothing else (no 200, no fallback body, no 500).
C5_TimeoutIs504 ==
  \A r \in Requests :
    /\ (thread[r] = "running" /\ state[r] # "TimedOut") => now <= Deadline(r)
    /\ state[r] = "TimedOut" =>
         /\ sent[r] = <<[status |-> 504, body |-> NoBody]>>
         /\ now >= Deadline(r)

C5_Witness ==
  \E r \in Requests :
    /\ state[r] = "TimedOut"
    /\ thread[r] = "running"
    /\ now > Deadline(r)
    /\ Len(sent[r]) = 1

\* C6: once a request is TimedOut, no later step (the abandoned backend call
\* finishing in particular) changes its state or the responses it produced.
C6_AbandonedResultIgnored ==
  [][\A r \in Requests :
       state[r] = "TimedOut" => (state'[r] = "TimedOut" /\ sent'[r] = sent[r])]_vars

C6_Witness ==
  \E r \in Requests :
    /\ state[r] = "TimedOut"
    /\ thread[r] = "done"
    /\ sent[r] = <<[status |-> 504, body |-> NoBody]>>

Range(seq) == {seq[i] : i \in 1..Len(seq)}

\* C8: a returned review has at most max_findings_per_review findings,
\* however many the backend emitted.
C8_ReturnedWithinMaximum ==
  run.phase = "returned" => Len(run.response.findings) <= max_findings_per_review

C8_Witness ==
  /\ run.phase = "returned"
  /\ Len(run.input.findings) > max_findings_per_review
  /\ Len(run.response.findings) = max_findings_per_review
  /\ run.response.metadata.guardrails_applied = <<"max_findings">>

\* The run is just past the MaxFindingsGuardrail call, which truncated
TruncatedByMaxFindings ==
  /\ run.phase = "pipeline"
  /\ run.idx = Len(Guardrails) + 1
  /\ Len(run.before.findings) > max_findings_per_review

\* C9: when MaxFindingsGuardrail truncates, the kept findings are findings of
\* the list it was given, and no finding it dropped has a strictly higher
\* severity rank than a finding it kept.
C9_KeptAreSeverityMaximal ==
  TruncatedByMaxFindings =>
    LET kept == Range(run.response.findings)
        dropped == Range(run.before.findings) \ kept
    IN /\ kept \subseteq Range(run.before.findings)
       /\ \A d \in dropped, k \in kept :
            SeverityIndex(d.severity) <= SeverityIndex(k.severity)

C9_Witness ==
  /\ TruncatedByMaxFindings
  /\ \E i, j \in 1..Len(run.before.findings) :
       /\ i < j
       /\ run.before.findings[i] \notin Range(run.response.findings)
       /\ run.before.findings[j] \in Range(run.response.findings)
       /\ SeverityIndex(run.before.findings[i].severity)
            < SeverityIndex(run.before.findings[j].severity)

\* C10: from the EmptyMessageGuardrail call on, and so in the returned
\* result, every finding has a message and a suggestion of at least 10
\* characters after trimming.
C10_NoShortTextSurvives ==
  (run.phase \in {"pipeline", "returned"} /\ run.idx > 1) =>
    \A f \in Range(run.response.findings) :
      /\ Len(Strip(f.message)) >= MinTextLen
      /\ Len(Strip(f.suggestion)) >= MinTextLen

C10_Witness ==
  /\ run.phase = "returned"
  /\ run.response.findings # <<>>
  /\ "empty_message" \in Range(run.response.metadata.guardrails_applied)
  /\ \E f \in Range(run.input.findings) : Len(f.message) < MinTextLen

\* The fingerprint as the claim words it: file, line, category and the
\* lowercased first 50 characters of the message
ClaimFingerprint(f) ==
  <<f.file, f.line, f.category, Lower(Prefix(f.message, FingerprintLen))>>

\* The run is past the call of the n-th guardrail of the sequence
PastCall(n) == run.phase \in {"pipeline", "returned"} /\ run.idx > n

\* The run is just past the call of the n-th guardrail: run.before is what
\* the guardrail was given, run.response what it handed on
JustPastCall(n) == run.phase = "pipeline" /\ run.idx = n + 1

\* C11: from the DuplicateDetectionGuardrail call on, no two surviving
\* findings have the same file, line, category and lowercased first 50
\* characters of the message.
C11_NoSharedFingerprint ==
  PastCall(2) =>
    LET fs == run.response.findings
    IN \A i, j \in 1..Len(fs) :
         i < j => ClaimFingerprint(fs[i]) # ClaimFingerprint(fs[j])

C11_Witness ==
  /\ JustPastCall(2)
  /\ run.response.findings # <<>>
  /\ Len(run.response.findings) < Len(run.before.findings)
  /\ \E i, j \in 1..Len(run.before.findings) :
       /\ i < j
       /\ run.before.findings[i].message # run.before.findings[j].message
       /\ ClaimFingerprint(run.before.findings[i]) = ClaimFingerprint(run.before.findings[j])

\* The one case in which the claim lets a severity change
UpgradeCase(f) ==
  /\ f.category = "security"
  /\ f.severity = "low"
  /\ \E kw \in SeriousKeywords : Contains(Lower(f.message), kw)

SeverityOnce(response) ==
  Validate("SeverityValidationGuardrail", response, run.context,
           max_findings_per_review, NoFault)

\* C13: applying SeverityValidationGuardrail again to what it handed on
\* changes nothing and records nothing, both for the response it is given
\* inside the pipeline and for the backend's response as it comes.
C13_SeverityIdempotent ==
  /\ JustPastCall(4) => SeverityOnce(run.response) = run.response
  /\ JustPastCall(0) => SeverityOnce(SeverityOnce(run.input)) = SeverityOnce(run.input)

C13_Witness ==
  /\ JustPastCall(4)
  /\ run.response.findings # run.before.findings
  /\ run.response.metadata.guardrails_applied # run.before.metadata.guardrails_applied
  /\ SeverityOnce(run.before) = run.response

\* C14: the guardrail calls of a pipeline run are EmptyMessage, Duplicate,
\* FileName, Severity, MaxFindings in this order, each exactly once and none
\* skipped: while the run is in the loop the calls made are the first idx - 1
\* of them, and a run that returned made all five, whatever the findings.
C14_FixedOrderOnceEach ==
  LET order == <<"EmptyMessageGuardrail", "DuplicateDetectionGuardrail",
                 "FileNameValidationGuardrail", "SeverityValidationGuardrail",
                 "MaxFindingsGuardrail">>
  IN /\ PastCall(0) =>
          /\ Len(run.invoked) = run.idx - 1
          /\ Len(run.invoked) <= Len(order)
          /\ \A i \in 1..Len(run.invoked) : run.invoked[i] = order[i]
     /\ run.phase = "returned" => Len(run.invoked) = Len(order)

\* A run whose findings became empty at the first guardrail and that still
\* called the other four
C14_Witness ==
  /\ run.phase = "returned"
  /\ run.crewError = "none"
  /\ run.input.findings # <<>>
  /\ run.response.findings = <<>>
  /\ run.response.metadata.guardrails_applied = <<"empty_message">>
  /\ Len(run.invoked) = Len(Guardrails)
  /\ run.invoked[Len(run.invoked)] = "MaxFindingsGuardrail"

\* The names the guardrails record, in the order of the guardrail sequence
AppliedOrder ==
  <<"empty_message", "duplicate_detection", "file_validation", "severity_validation",
    "max_findings">>

\* names is a subsequence of AppliedOrder with no name twice
InAppliedOrder(names) ==
  /\ \A i \in 1..Len(names) : \E k \in 1..Len(AppliedOrder) : AppliedOrder[k] = names[i]
  /\ \A i, j \in 1..Len(names) :
       i < j => \E k, l \in 1..Len(AppliedOrder) :
                  k < l /\ AppliedOrder[k] = names[i] /\ AppliedOrder[l] = names[j]

\* C15: the run starts with guardrails_applied empty; every step of the run
\* leaves the entries already there in place and adds at most one at the
\* end; the list is always a subsequence of the five names in guardrail
\* order, each at most once.
C15_AppliedOnlyGrows ==
  [][/\ (run.phase = "backend" /\ run'.phase = "pipeline") =>
          run'.response.metadata.guardrails_applied = <<>>
     /\ (run.phase = "pipeline" /\ run'.phase \in {"pipeline", "returned"}) =>
          LET old == run.response.metadata.guardrails_applied
              new == run'.response.metadata.guardrails_applied
          IN /\ Len(old) <= Len(new)
             /\ Len(new) <= Len(old) + 1
             /\ SubSeq(new, 1, Len(old)) = old
             /\ InAppliedOrder(new)]_vars

C15_Witness ==
  /\ run.phase = "returned"
  /\ Len(run.response.metadata.guardrails_applied) >= 3
  /\ InAppliedOrder(run.response.metadata.guardrails_applied)

\* The kinds of backend output that are text
TextKinds == {"not_json", "array", "object"}

\* C16: for a backend output that is text the parser does not raise, and when
\* the text is not JSON or is JSON other than an object the parsed result is
\* the fixed fallback: no findings, the parse-failure summary, score 7.0.
C16_ParserFallback ==
  run.phase # "backend" =>
    /\ run.kind \in TextKinds => run.crewError # "parse failed"
    /\ run.kind \in {"not_json", "array"} =>
         /\ run.crewError = "none"
         /\ run.input.summary = "Review completed but output parsing failed"
         /\ run.input.score = ParseFailScore
         /\ run.input.findings = <<>>

C16_Witness ==
  /\ run.phase = "returned"
  /\ run.kind = "array"
  /\ run.input.score = ParseFailScore
  /\ run.response.summary = "Review completed but output parsing failed"
  /\ run.response.metadata.guardrails_applied = <<>>

\* The check_rate_limit call this step makes, as logged: <<key, time, admitted>>
CallMade == admits'[Len(admits')]

\* C17: an admit-check made when every timestamp recorded for its key is
\* more than 60 seconds old is admitted, whatever was rejected before.
C17_AdmissionResumes ==
  [][Len(admits') = Len(admits) + 1 =>
       LET k == CallMade[1]
           recorded == IF k \in DOMAIN request_timestamps
                       THEN request_timestamps[k] ELSE <<>>
       IN (\A i \in 1..Len(recorded) : CallMade[2] - recorded[i] > WindowSeconds)
            => CallMade[3]]_vars

\* A key that was rejected while its list was full and admitted again later
C17_Witness ==
  \E k \in Keys :
    LET calls == CallsOf(k)
    IN \E i, j \in 1..Len(calls) :
         /\ i < j
         /\ ~calls[i][3]
         /\ calls[j][3]
         /\ \A h \in 1..(j - 1) : calls[j][2] - calls[h][2] > WindowSeconds
         /\ request_timestamps[k] = <<calls[j][2]>>

\* How many entries of seq satisfy Test
Count(seq, Test(_)) == Cardinality({i \in 1..Len(seq) : Test(seq[i])})

\* C18: a rejected admit-check adds nothing to its key's list: the list after
\* it is the tail of the list before it, and it holds no time more often
\* than checks of the key were admitted at that time.
C18_RejectionNotRecorded ==
  [][(Len(admits') = Len(admits) + 1 /\ ~CallMade[3]) =>
       LET k == CallMade[1]
           old == request_timestamps[k]
           new == request_timestamps'[k]
       IN /\ Len(new) <= Len(old)
          /\ new = SubSeq(old, Len(old) - Len(new) + 1, Len(old))
          /\ \A i \in 1..Len(new) :
               Count(new, LAMBDA ts : ts = new[i])
                 <= Count(admits', LAMBDA c : c[1] = k /\ c[3] /\ c[2] = new[i])]_vars

\* The last check of a key was rejected at a time later than every timestamp
\* of its list
C18_Witness ==
  \E k \in Keys :
    LET calls == CallsOf(k)
    IN /\ calls # <<>>
       /\ ~calls[Len(calls)][3]
       /\ request_timestamps[k] # <<>>
       /\ \A i \in 1..Len(request_timestamps[k]) :
            request_timestamps[k][i] < calls[Len(calls)][2]

\* C19: in every state of the limiter each key's timestamp list has at most
\* rate_limit_per_minute entries.
C19_ListBoundedByLimit ==
  \A k \in DOMAIN request_timestamps :
    Len(request_timestamps[k]) <= rate_limit_per_minute

\* A key with the largest limit has a full list and has been rejected since
C19_Witness ==
  /\ rate_limit_per_minute = MaxRateLimit
  /\ \E k \in DOMAIN request_timestamps :
       /\ Len(request_timestamps[k]) = rate_limit_per_minute
       /\ \E i \in 1..Len(admits) : admits[i][1] = k /\ ~admits[i][3]

\* The requests for which crew.review_code was handed to the executor
Invoked == {r \in Requests : thread[r] # "none"}

\* C20: a request answered 401 or 429 got that answer and nothing else and
\* its backend was never invoked, so no pipeline ran for it; and every
\* backend invocation stands for its own admitted check of the valid key.
C20_BackendOnlyAfterAdmission ==
  /\ \A r \in Requests :
       (sent[r] # <<>> /\ sent[r][1].status \in {401, 429}) =>
         /\ r \notin Invoked
         /\ Len(sent[r]) = 1
         /\ state[r] \in {"Unauthorized", "RateLimited"}
  /\ \A r \in Requests :
       state[r] \in {"Unauthorized", "RateLimited"} =>
         (r \notin Invoked /\ Len(sent[r]) = 1 /\ sent[r][1].body = NoBody)
  /\ Cardinality(Invoked) <= Count(admits, LAMBDA c : c[1] = ValidKey /\ c[3])

C20_Witness ==
  \E r1, r2 \in Requests :
    /\ state[r1] = "Completed"
    /\ state[r2] = "RateLimited"
    /\ sent[r2] = <<[status |-> 429, body |-> NoBody]>>
    /\ thread[r2] = "none"

\* The transitions of the request state machine: those of a request that is
\* turned away before admission, and those the claim allows after it
RejectionTransitions == {<<"Pending", "Unauthorized">>, <<"Pending", "RateLimited">>}

LifecycleTransitions ==
  {<<"Pending", "BackendInvoked">>, <<"BackendInvoked", "Completed">>,
   <<"BackendInvoked", "TimedOut">>, <<"BackendInvoked", "Failed">>}

\* C21: a request that is admitted changes state only along Pending ->
\* BackendInvoked -> Completed | TimedOut | Failed (Parsed and Validated are
\* passed inside the step that completes it), so no state is revisited and
\* Completed, TimedOut and Failed are never left.
C21_OnlyLifecycleTransitions ==
  [][\A r \in Requests :
       state'[r] # state[r] =>
         <<state[r], state'[r]>> \in RejectionTransitions \cup LifecycleTransitions]_vars

\* C22: a request that was admitted and handed to the backend eventually gets
\* its terminal response, whether or not the backend call ever returns; when
\* the backend does not return in time, the response is the timeout.
C22_AdmittedRequestTerminates ==
  \A r \in Requests :
    (state[r] = "BackendInvoked") ~>
      (state[r] \in {"Completed", "TimedOut", "Failed"} /\ Len(sent[r]) = 1)

\* The deadline has just been reached, the 504 is out and the backend call
\* is still running
C22_Witness ==
  \E r \in Requests :
    /\ state[r] = "TimedOut"
    /\ thread[r] = "running"
    /\ now = Deadline(r)
    /\ sent[r] = <<[status |-> TimeoutStatus, body |-> NoBody]>>

\* The finding of the claim: security, low, a keyword in the message, a file
\* the diff references, message and suggestion long enough for the length check
Qualifying(f) ==
  /\ UpgradeCase(f)
  /\ f.file \in extract_files_from_diff(run.context.diff)
  /\ Len(Strip(f.message)) > MinTextLen
  /\ Len(Strip(f.suggestion)) > MinTextLen

AsMedium(f) == [f EXCEPT !.severity = "medium"]

\* No finding before position i that passes the length check has the
\* fingerprint of the i-th finding
FirstOfFingerprint(fs, i) ==
  \A j \in 1..(i - 1) :
    (Len(Strip(fs[j].message)) > MinTextLen /\ Len(Strip(fs[j].suggestion)) > MinTextLen)
      => Fingerprint(fs[j]) # Fingerprint(fs[i])

\* C23 as stated: whenever the backend result contains a qualifying finding,
\* the returned result contains it with severity medium and guardrails_applied
\* contains severity_validation.
C23_QualifyingAlwaysUpgraded ==
  run.phase = "returned" =>
    \A i \in 1..Len(run.input.findings) :
      Qualifying(run.input.findings[i]) =>
        /\ AsMedium(run.input.findings[i]) \in Range(run.response.findings)
        /\ "severity_validation" \in Range(run.response.metadata.guardrails_applied)

\* C23: when the backend result contains a qualifying finding that is not a
\* duplicate of an earlier finding, guardrails_applied of the returned result
\* contains severity_validation, and the result contains the finding with
\* severity medium unless max_findings truncated the list.
C23_FirstQualifyingUpgraded ==
  run.phase = "returned" =>
    \A i \in 1..Len(run.input.findings) :
      (Qualifying(run.input.findings[i]) /\ FirstOfFingerprint(run.input.findings, i)) =>
        /\ "severity_validation" \in Range(run.response.metadata.guardrails_applied)
        /\ "max_findings" \notin Range(run.response.metadata.guardrails_applied)
             => AsMedium(run.input.findings[i]) \in Range(run.response.findings)

\* A qualifying finding that comes after findings which are removed is
\* returned as medium in an untruncated result
C23_Witness ==
  /\ run.phase = "returned"
  /\ Len(run.input.findings) = 3
  /\ Qualifying(run.input.findings[3])
  /\ FirstOfFingerprint(run.input.findings, 3)
  /\ "max_findings" \notin Range(run.response.metadata.guardrails_applied)
  /\ "severity_validation" \in Range(run.response.metadata.guardrails_applied)
  /\ AsMedium(run.input.findings[3]) \in Range(run.response.findings)

\* The backend returned two findings identical except for severity, with
\* texts that pass the length check, naming a file that is not in the
\* non-empty set of files extracted from the diff
PairOffDiff ==
  LET fs == run.input.findings
      valid_files == extract_files_from_diff(run.context.diff)
  IN /\ run.kind = "object"
     /\ Len(fs) = 2
     /\ fs[1].severity # fs[2].severity
     /\ fs[2] = [fs[1] EXCEPT !.severity = fs[2].severity]
     /\ Len(Strip(fs[1].message)) > MinTextLen
     /\ Len(Strip(fs[1].suggestion)) > MinTextLen
     /\ valid_files # {}
     /\ fs[1].file \notin valid_files \cup {"unknown"}

\* C24 as stated: FileNameValidationGuardrail is given both findings and
\* removes both, and the returned list is empty.
C24_FileNameRemovesBoth ==
  PairOffDiff =>
    /\ JustPastCall(3) =>
          run.before.findings = run.input.findings /\ run.response.findings = <<>>
    /\ run.phase = "returned" => run.response.findings = <<>>

\* C24: of two such findings DuplicateDetectionGuardrail removes the second,
\* FileNameValidationGuardrail removes the remaining first one, and the
\* returned list is empty with guardrails_applied = duplicate_detection,
\* file_validation.
C24_DuplicateThenFileName ==
  PairOffDiff =>
    /\ JustPastCall(2) =>
          /\ run.before.findings = run.input.findings
          /\ run.response.findings = <<run.input.findings[1]>>
    /\ JustPastCall(3) =>
          /\ run.before.findings = <<run.input.findings[1]>>
          /\ run.response.findings = <<>>
    /\ run.phase = "returned" =>
          /\ run.response.findings = <<>>
          /\ run.response.metadata.guardrails_applied =
               <<"duplicate_detection", "file_validation">>

C24_Witness ==
  /\ PairOffDiff
  /\ run.phase = "returned"
  /\ run.input.findings[1].file = "x.py"
  /\ run.response.findings = <<>>
  /\ run.invoked = Guardrails

\* C25: a run over a result whose findings list is empty hands it on
\* unchanged at every guardrail and returns it with findings empty, the same
\* score and summary and guardrails_applied empty; the parser's result for
\* output that is not JSON is such a result, with score 7.0.
C25_EmptyResultUntouched ==
  /\ (PastCall(0) /\ run.input.findings = <<>>) =>
        /\ run.response.findings = <<>>
        /\ run.response.score = run.input.score
        /\ run.response.summary = run.input.summary
        /\ run.response.metadata.guardrails_applied = <<>>
  /\ (PastCall(0) /\ run.kind = "not_json") =>
        run.input.findings = <<>> /\ run.input.score = ParseFailScore

C25_Witness ==
  /\ run.phase = "returned"
  /\ run.kind = "not_json"
  /\ run.invoked = Guardrails
  /\ run.response.score = ParseFailScore
  /\ run.response.findings = <<>>
  /\ run.response.metadata.guardrails_applied = <<>>

\* C26: no two requests pass the same ReviewResponse object through the
\* shared orchestrator, every such object enters apply with guardrails_applied
\* empty, what a request was sent is the content of its own object, and an
\* object, once its request is answered, is never changed by the handling of
\* another request.
C26_NoSharedResult ==
  /\ [](\A r, q \in Requests :
          /\ (r # q /\ holds[r] # 0) => holds[r] # holds[q]
          /\ holds[r] # 0 =>
                /\ objects[holds[r]].made
                /\ objects[holds[r]].startApplied = <<>>
                /\ sent[r] = <<[status |-> 200, body |-> objects[holds[r]].response]>>)
  /\ [][\A q \in Requests : objects[q].made => objects'[q] = objects[q]]_vars

\* Two requests admitted at the same clock reading were both answered, with
\* different results that guardrails changed
C26_Witness ==
  \E r, q \in Requests :
    /\ r # q
    /\ holds[r] # 0 /\ holds[q] # 0
    /\ started[q] = started[r]
    /\ objects[holds[r]].response.metadata.guardrails_applied # <<>>
    /\ objects[holds[q]].response.metadata.guardrails_applied # <<>>
    /\ objects[holds[r]].response # objects[holds[q]].response

\* C27 as stated: after an admit-check of a key at time now, the key's list
\* is the key's previously admitted timestamps that lie in [now - 60, now],
\* a timestamp exactly 60 seconds old included, followed by now itself when
\* the check was admitted.
C27_ClosedWindowRetained ==
  [][Len(admits') = Len(admits) + 1 =>
       LET k == CallMade[1]
           current_time == CallMade[2]
           earlier == AdmittedTimes(CallsOf(k))
           inWindow == SelectSeq(earlier, LAMBDA ts : ts >= current_time - WindowSeconds)
       IN request_timestamps'[k] =
            inWindow \o (IF CallMade[3] THEN <<current_time>> ELSE <<>>)]_vars

\* C28 as stated: EmptyMessageGuardrail hands on, in their order, exactly the
\* findings whose message and suggestion both have a trimmed length of at
\* least 10 characters, exactly 10 included.
C28_KeptFromTenCharacters ==
  JustPastCall(1) =>
    run.response.findings =
      SelectSeq(run.before.findings,
                LAMBDA f : /\ Len(Strip(f.message)) >= MinTextLen
                           /\ Len(Strip(f.suggestion)) >= MinTextLen)

\* The fingerprint as the validator's description words it: file, line,
\* category and the lowercased, trimmed first 50 characters of the message
TrimmedFingerprint(f) ==
  <<f.file, f.line, f.category, Strip(Lower(Prefix(f.message, FingerprintLen)))>>

\* The positions of fs that hold the first finding of their fingerprint
FirstPositions(fs) ==
  {i \in 1..Len(fs) :
     \A j \in 1..(i - 1) : TrimmedFingerprint(fs[j]) # TrimmedFingerprint(fs[i])}

\* C29: DuplicateDetectionGuardrail hands on exactly the findings that are
\* the first of their fingerprint, whatever the severities of the later ones,
\* in their original relative order.
C29_FirstPerFingerprintKept ==
  JustPastCall(2) =>
    LET fs == run.before.findings
        kept == FirstPositions(fs)
    IN /\ Len(run.response.findings) = Cardinality(kept)
       /\ \A i \in kept :
            run.response.findings[Cardinality({j \in kept : j <= i})] = fs[i]

\* A later duplicate of higher severity was dropped, its earlier twin and
\* another finding after it were kept in order
C29_Witness ==
  /\ JustPastCall(2)
  /\ Len(run.before.findings) = 3
  /\ TrimmedFingerprint(run.before.findings[1]) = TrimmedFingerprint(run.before.findings[2])
  /\ SeverityIndex(run.before.findings[2].severity) >
       SeverityIndex(run.before.findings[1].severity)
  /\ run.response.findings = <<run.before.findings[1], run.before.findings[3]>>

\* C30: when no file can be extracted from the diff, the result leaves
\* FileNameValidationGuardrail exactly as it entered it, whatever the file
\* fields of its findings are, and file_validation is never recorded.
C30_NoFilesNoValidation ==
  extract_files_from_diff(run.context.diff) = {} =>
    /\ JustPastCall(3) => run.response = run.before
    /\ PastCall(3) =>
          "file_validation" \notin Range(run.response.metadata.guardrails_applied)

\* Findings naming different files, none of them in the diff, passed the
\* guardrail
C30_Witness ==
  /\ JustPastCall(3)
  /\ extract_files_from_diff(run.context.diff) = {}
  /\ run.response.findings = run.before.findings
  /\ \E i, j \in 1..Len(run.response.findings) :
       /\ run.response.findings[i].file = "x.py"
       /\ run.response.findings[j].file = "auth.py"

\* C31: when files can be extracted from the diff, FileNameValidationGuardrail
\* hands on, in their order, exactly the findings whose file is one of the
\* extracted files or "unknown".
C31_FileFilterExact ==
  (JustPastCall(3) /\ extract_files_from_diff(run.context.diff) # {}) =>
    run.response.findings =
      SelectSeq(run.before.findings,
                LAMBDA f : \/ f.file \in extract_files_from_diff(run.context.diff)
                           \/ f.file = "unknown")

\* A finding naming a file outside the diff was removed from between one
\* naming "unknown" and one naming a file of the diff
C31_Witness ==
  /\ JustPastCall(3)
  /\ extract_files_from_diff(run.context.diff) = {"auth.py"}
  /\ Len(run.before.findings) = 3
  /\ run.before.findings[1].file = "unknown"
  /\ run.before.findings[2].file = "x.py"
  /\ run.before.findings[3].file = "auth.py"
  /\ run.response.findings = <<run.before.findings[1], run.before.findings[3]>>

\* a is ordered before b: higher severity rank, or the same rank and the
\* alphabetically earlier category name
SeverityThenCategoryAscending(a, b) ==
  \/ SeverityIndex(a.severity) > SeverityIndex(b.severity)
  \/ /\ SeverityIndex(a.severity) = SeverityIndex(b.severity)
     /\ CategoryKey(a.category) < CategoryKey(b.category)

\* a is ordered before b: the pair (severity rank, category name) of a is the
\* greater one
PairDescending(a, b) ==
  \/ SeverityIndex(a.severity) > SeverityIndex(b.severity)
  \/ /\ SeverityIndex(a.severity) = SeverityIndex(b.severity)
     /\ CategoryKey(a.category) > CategoryKey(b.category)

\* The position of fs[i] when fs is sorted by Before, findings that Before
\* does not separate staying in their order
PlaceOf(fs, i, Before(_, _)) ==
  Cardinality({j \in 1..Len(fs) : Before(fs[j], fs[i])})
    + Cardinality({j \in 1..(i - 1) : ~Before(fs[j], fs[i]) /\ ~Before(fs[i], fs[j])})
    + 1

\* The list MaxFindingsGuardrail hands on is the first max_findings_per_review
\* findings of the list it was given, sorted by Before
KeptFirstBy(Before(_, _)) ==
  LET fs == run.before.findings
  IN /\ Len(run.response.findings) = max_findings_per_review
     /\ \A i \in 1..Len(fs) :
          PlaceOf(fs, i, Before) <= max_findings_per_review
            => run.response.findings[PlaceOf(fs, i, Before)] = fs[i]

\* C32 as stated: when MaxFindingsGuardrail truncates, it keeps the first
\* findings of the list ordered by severity rank descending and, among equal
\* severities, by category name ascending.
C32_TieByCategoryAscending ==
  TruncatedByMaxFindings => KeptFirstBy(SeverityThenCategoryAscending)

\* C33: when MaxFindingsGuardrail truncates, it keeps the first findings of
\* the list sorted by the pair (severity rank, category name) descending, so
\* that among equal severities the alphabetically later category comes first.
C33_PairSortedDescending ==
  TruncatedByMaxFindings => KeptFirstBy(PairDescending)

\* Of two findings of one severity the one given first, with the earlier
\* category name, was dropped and the one with the later name kept
C33_Witness ==
  /\ TruncatedByMaxFindings
  /\ \E i, j \in 1..Len(run.before.findings) :
       /\ i < j
       /\ run.before.findings[i].severity = run.before.findings[j].severity
       /\ CategoryKey(run.before.findings[i].category) <
            CategoryKey(run.before.findings[j].category)
       /\ run.before.findings[j] \in Range(run.response.findings)
       /\ run.before.findings[i] \notin Range(run.response.findings)

\* C34: when the list given to MaxFindingsGuardrail has at most
\* max_findings_per_review findings, the guardrail hands the result on
\* exactly as it was: same findings in the same order, max_findings not
\* recorded.
C34_WithinMaximumUntouched ==
  (JustPastCall(5) /\ Len(run.before.findings) <= max_findings_per_review) =>
    /\ run.response = run.before
    /\ "max_findings" \notin Range(run.response.metadata.guardrails_applied)

\* A list exactly as long as the maximum, with a lower severity ahead of a
\* higher one, passed unsorted
C34_Witness ==
  /\ JustPastCall(5)
  /\ Len(run.before.findings) = max_findings_per_review
  /\ Len(run.before.findings) >= 2
  /\ SeverityIndex(run.before.findings[1].severity) <
       SeverityIndex(run.before.findings[2].severity)
  /\ run.response.findings = run.before.findings

\* What the n-th guardrail of the sequence did to the list it was given, in
\* the claim's terms: the severity guardrail upgraded a severity, every other
\* guardrail removed at least one finding
ChangedByCall(n) ==
  IF Guardrails[n] = "SeverityValidationGuardrail"
  THEN /\ Len(run.response.findings) = Len(run.before.findings)
       /\ \E i \in 1..Len(run.before.findings) :
            run.response.findings[i].severity # run.before.findings[i].severity
  ELSE Len(run.response.findings) < Len(run.before.findings)

\* C35: each of the five guardrails appends its name to guardrails_applied
\* exactly when it removed a finding, upgraded a severity or truncated, and
\* otherwise leaves both the findings and guardrails_applied as they were.
C35_RecordedIffChanged ==
  \A n \in 1..Len(Guardrails) :
    JustPastCall(n) =>
      IF ChangedByCall(n)
      THEN run.response.metadata.guardrails_applied =
             Append(run.before.metadata.guardrails_applied, AppliedOrder[n])
      ELSE /\ run.response.findings = run.before.findings
           /\ run.response.metadata.guardrails_applied =
                run.before.metadata.guardrails_applied

\* A run in which the first and the fourth guardrail changed the result and
\* the second, third and fifth did not
C35_Witness ==
  /\ run.phase = "returned"
  /\ run.invoked = Guardrails
  /\ run.response.findings # <<>>
  /\ run.response.metadata.guardrails_applied = <<"empty_message", "severity_validation">>

\* C36: from the backend's result to the returned one, at every step of the
\* run, summary, score, execution_time_ms, tokens_used, agent_count and model
\* stay as the crew set them, whether guardrail calls return or raise; only
\* the findings and guardrails_applied differ.
C36_OnlyFindingsAndAppliedChange ==
  run.phase \in {"pipeline", "returned", "raised"} =>
    /\ run.response.summary = run.input.summary
    /\ run.response.score = run.input.score
    /\ run.response.metadata.execution_time_ms = run.input.metadata.execution_time_ms
    /\ run.response.metadata.tokens_used = run.input.metadata.tokens_used
    /\ run.response.metadata.agent_count = run.input.metadata.agent_count
    /\ run.response.metadata.model = run.input.metadata.model
    /\ DOMAIN run.response = DOMAIN run.input
    /\ DOMAIN run.response.metadata = DOMAIN run.input.metadata

\* A returned result whose findings and guardrails_applied both changed
C36_Witness ==
  /\ run.phase = "returned"
  /\ run.kind = "object"
  /\ run.input.metadata.tokens_used # 0
  /\ run.response.findings # run.input.findings
  /\ Len(run.response.metadata.guardrails_applied) >= 2

\* C37: in a run that truncated, a low security finding with a keyword that
\* reached the severity correction (valid texts and file, not a duplicate) is
\* missing from the returned list only if that list holds no finding of
\* severity low: it competes as medium and is never dropped in favour of a
\* low finding.
C37_UpgradedOutranksLow ==
  (run.phase = "returned"
     /\ "max_findings" \in Range(run.response.metadata.guardrails_applied)) =>
    \A i \in 1..Len(run.input.findings) :
      (/\ Qualifying(run.input.findings[i])
       /\ FirstOfFingerprint(run.input.findings, i)
       /\ AsMedium(run.input.findings[i]) \notin Range(run.response.findings))
        => \A k \in 1..Len(run.response.findings) :
             run.response.findings[k].severity # "low"

\* The backend gave a low security finding without keyword ahead of a low
\* security finding with one; with room for one finding the second, upgraded,
\* was kept and the first dropped
C37_Witness ==
  /\ run.phase = "returned"
  /\ max_findings_per_review = 1
  /\ Len(run.input.findings) = 2
  /\ run.input.findings[1].severity = "low"
  /\ run.input.findings[1].category = "security"
  /\ ~UpgradeCase(run.input.findings[1])
  /\ Qualifying(run.input.findings[2])
  /\ run.response.findings = <<AsMedium(run.input.findings[2])>>
  /\ run.response.metadata.guardrails_applied = <<"severity_validation", "max_findings">>

\* out is the finding src as the pipeline may hand it on: unchanged, or with
\* its severity raised from low to medium
HandedOn(src, out) ==
  \/ out = src
  \/ src.severity = "low" /\ out = AsMedium(src)

\* C38: the findings of a returned result are findings of the result the
\* pipeline was given, each input finding used at most once, with file, line,
\* category, message and suggestion as given and the severity as given or
\* raised from low to medium; there are never more of them than were given.
C38_NoFabricatedFinding ==
  run.phase = "returned" =>
    LET given == run.input.findings
        out == run.response.findings
    IN /\ Len(out) <= Len(given)
       /\ \E from \in [1..Len(out) -> 1..Len(given)] :
            /\ \A k, l \in 1..Len(out) : k # l => from[k] # from[l]
            /\ \A k \in 1..Len(out) : HandedOn(given[from[k]], out[k])

\* A returned result that holds one finding as given and one upgraded, in
\* another order than given, with a third finding removed
C38_Witness ==
  /\ run.phase = "returned"
  /\ Len(run.input.findings) = 3
  /\ Len(run.response.findings) = 2
  /\ \E i, j \in 1..3 :
       /\ i < j
       /\ run.response.findings[1] = run.input.findings[j]
       /\ run.response.findings[2] = AsMedium(run.input.findings[i])
       /\ run.input.findings[i].severity = "low"

\* C39: a request with a bad key is answered 401 in a step that leaves every
\* key's timestamp list and the log of admit-checks as they were; admit-checks
\* are made only for the valid key, one for each request that passed
\* verify_api_key, so bad-key requests never count against the valid key.
C39_BadKeyLeavesLimiterAlone ==
  /\ [](/\ \A i \in 1..Len(admits) : admits[i][1] = ValidKey
        /\ DOMAIN request_timestamps \subseteq {ValidKey}
        /\ Len(admits) =
             Cardinality({r \in Requests : state[r] \notin {"Pending", "Unauthorized"}}))
  /\ [][\A r \in Requests :
          (state[r] = "Pending" /\ state'[r] = "Unauthorized") =>
            /\ request_timestamps' = request_timestamps
            /\ admits' = admits
            /\ sent'[r] = <<[status |-> 401, body |-> NoBody]>>]_vars

\* With a limit of one per minute, a bad-key request was answered 401 and the
\* request with the valid key that came after it, at the same time, was
\* admitted
C39_Witness ==
  \E r, q \in Requests :
    /\ r < q
    /\ rate_limit_per_minute = 1
    /\ state[r] = "Unauthorized"
    /\ state[q] = "BackendInvoked"
    /\ admits = <<<<ValidKey, started[q], TRUE>>>>
    /\ request_timestamps[ValidKey] = <<started[q]>>

\* The timestamps recorded for the valid key
Recorded == IF ValidKey \in DOMAIN request_timestamps
            THEN request_timestamps[ValidKey] ELSE <<>>

RecordedNext == IF ValidKey \in DOMAIN request_timestamps'
                THEN request_timestamps'[ValidKey] ELSE <<>>

====
